---------------------------- MODULE Spec2Model ----------------------------
(***************************************************************************)
(* Model of package testutil (src/testutil/db.go): the list-backed series  *)
(* iterator (Next / At / Seek), the ingestion loop createHead with the     *)
(* AddFast / Add appender calls, CreateBlock and GenSeries.                *)
(*                                                                         *)
(* Four specifications share the variables; each leaves the variables of   *)
(* the other parts unchanged:                                              *)
(*   SpecIter  one listSeriesIterator driven by arbitrary Next/Seek calls  *)
(*   SpecHead  CreateBlock -> createHead against an opaque appender        *)
(*   SpecGen   GenSeries applied to bounded arguments                      *)
(*   SpecDB    OpenTestDB and the release functions it returns             *)
(***************************************************************************)
EXTENDS Integers, Sequences, FiniteSets, TLC

VARIABLES
    it,       \* SpecIter: the listSeriesIterator under test, [list, idx]
    trace,    \* SpecIter: history of the calls made on it
    hd,       \* SpecHead: the state of one CreateBlock run
    gen,      \* SpecGen: the arguments and the outcome of one GenSeries call
    db        \* SpecDB: the test databases opened and their directories

vars == <<it, trace, hd, gen, db>>

(***************************************************************************)
(* Bounds of the model.                                                    *)
(***************************************************************************)
MaxLen == 3        \* longest sample list of an iterator
MaxT == 3          \* sample timestamps are drawn from 1..MaxT
MaxOps == 4        \* calls made on one iterator

Timestamps == 1..MaxT
SeekTargets == 1..(MaxT + 1)

Max(a, b) == IF a > b THEN a ELSE b

(***************************************************************************)
(* type sample struct { t int64; v float64 }.  The value of the i-th       *)
(* sample of a list is the token i, so that two samples of one list with   *)
(* the same timestamp are still told apart.                                *)
(***************************************************************************)
sample(t, v) == [t |-> t, v |-> v]

SampleListOf(ts) == [i \in 1..Len(ts) |-> sample(ts[i], i)]

TimestampSeqs(n) == UNION {[1..k -> Timestamps] : k \in 0..n}

SampleLists == {SampleListOf(ts) : ts \in TimestampSeqs(MaxLen)}

IsSorted(l) == \A i \in 1..Len(l) : \A j \in i..Len(l) : l[i].t <= l[j].t

(***************************************************************************)
(* listSeriesIterator.  idx is the Go index (0-based, -1 before the first  *)
(* element); list is a TLA+ sequence, so list[idx] of the source is        *)
(* it.list[it.idx + 1] here.                                               *)
(***************************************************************************)
newListSeriesIterator(l) == [list |-> l, idx |-> -1]

\* At panics (index out of range) unless 0 <= idx < len(list).
AtPanics(i) == ~(0 <= i.idx /\ i.idx < Len(i.list))

At(i) == IF AtPanics(i) THEN "panic" ELSE i.list[i.idx + 1]

\* Mutant of Next: the cursor is not advanced.
NextStuck(i) == [it |-> i, ok |-> i.idx < Len(i.list)]

Next(i) ==
    LET j == i.idx + 1
    IN  [it |-> [i EXCEPT !.idx = j], ok |-> j < Len(i.list)]

(***************************************************************************)
(* sort.Search(n, f): the binary search of the standard library, with      *)
(* f(h) == it.list[h + it.idx].T() >= t as the closure of Seek passes it.  *)
(* A negative n leaves the loop unentered and yields 0.                    *)
(***************************************************************************)
RECURSIVE Search(_, _, _, _, _)
Search(lo, hi, l, base, t) ==
    IF lo < hi
    THEN LET h == (lo + hi) \div 2
         IN  IF ~(l[h + base + 1].t >= t)
             THEN Search(h + 1, hi, l, base, t)
             ELSE Search(lo, h, l, base, t)
    ELSE lo

\* Mutant of Seek: the search looks for a timestamp > t instead of >= t.
RECURSIVE SearchStrict(_, _, _, _, _)
SearchStrict(lo, hi, l, base, t) ==
    IF lo < hi
    THEN LET h == (lo + hi) \div 2
         IN  IF ~(l[h + base + 1].t > t)
             THEN SearchStrict(h + 1, hi, l, base, t)
             ELSE SearchStrict(lo, h, l, base, t)
    ELSE lo

SeekStrict(i, t) ==
    LET base == IF i.idx = -1 THEN 0 ELSE i.idx
        j == SearchStrict(0, Len(i.list) - base, i.list, base, t)
    IN  [it |-> [i EXCEPT !.idx = j], ok |-> j < Len(i.list)]

\* Mutant of Seek: the position one past the end counts as valid.
SeekOffByOne(i, t) ==
    LET base == IF i.idx = -1 THEN 0 ELSE i.idx
        j == Search(0, Len(i.list) - base, i.list, base, t)
    IN  [it |-> [i EXCEPT !.idx = j], ok |-> j <= Len(i.list)]

Seek(i, t) ==
    LET base == IF i.idx = -1 THEN 0 ELSE i.idx
        j == Search(0, Len(i.list) - base, i.list, base, t)
    IN  [it |-> [i EXCEPT !.idx = j], ok |-> j < Len(i.list)]

Err(i) == "nil"

(***************************************************************************)
(* SpecIter: a fresh iterator over any list, then any calls.               *)
(***************************************************************************)
IdleHd == [pc |-> "idle"]
IdleGen == [pc |-> "idle"]
IdleIt == [list |-> <<>>, idx |-> -1]
IdleDB == [pc |-> "idle"]

Call(op, t, pre, r) ==
    [op |-> op, t |-> t, pre |-> pre, post |-> r.it.idx, ok |-> r.ok]

InitIter ==
    /\ \E l \in SampleLists : it = newListSeriesIterator(l)
    /\ trace = <<>>
    /\ hd = IdleHd
    /\ gen = IdleGen
    /\ db = IdleDB

CallNext ==
    /\ Len(trace) < MaxOps
    /\ LET r == Next(it)
       IN  /\ it' = r.it
           /\ trace' = Append(trace, Call("Next", 0, it.idx, r))
    /\ UNCHANGED <<hd, gen, db>>

CallSeek ==
    /\ Len(trace) < MaxOps
    /\ \E t \in SeekTargets :
          LET r == Seek(it, t)
          IN  /\ it' = r.it
              /\ trace' = Append(trace, Call("Seek", t, it.idx, r))
    /\ UNCHANGED <<hd, gen, db>>

NextIter == CallNext \/ CallSeek

SpecIter == InitIter /\ [][NextIter]_vars

(***************************************************************************)
(* SpecHead: CreateBlock(tb, dir, series), which runs createHead and then  *)
(* writes the head out with the compactor.  tsdb.Head, its Appender and    *)
(* the LeveledCompactor are collaborators: each call may fail, and Add     *)
(* returns whatever reference it likes.  hd.pc is the place in the code.   *)
(***************************************************************************)
MaxSeries == 2     \* fixtures handed to CreateBlock
MaxSamples == 2    \* samples of one fixture
MaxRef == 2        \* references Add hands out are drawn from 0..MaxRef
MaxHeadT == 2      \* timestamps of the fixtures are drawn from 1..MaxHeadT

HeadTimestamps == 1..MaxHeadT

Errs == {"nil", "err"}

\* What AddFast returns: nil, or an error of one kind or another.
FastErrs == {"nil", "ErrNotFound", "ErrOutOfBounds"}
Refs == 0..MaxRef

\* Timestamp sequences of length <= n that strictly increase.
IncreasingSeqs(n) ==
    {q \in UNION {[1..k -> HeadTimestamps] : k \in 0..n} :
        \A k \in 1..(Len(q) - 1) : q[k] < q[k + 1]}

\* mockSeries: Labels() yields the label set, Iterator() a fresh iterator
\* over the samples.  The label set of the k-th fixture is the token k.
newSeries(l, s) == [labels |-> l, samples |-> s]

FixtureLists ==
    UNION {{[k \in 1..n |-> newSeries(k, SampleListOf(tss[k]))] :
                tss \in [1..n -> IncreasingSeqs(MaxSamples)]} :
           n \in 0..MaxSeries}

\* testutil.Ok(tb, err): a non-nil error fails the test at once; the code
\* after the call does not run.
Ok(err, next) == IF err = "nil" THEN next ELSE "failed"

\* Head.MinTime() / Head.MaxTime() of a committed head that holds samples.
HeadMinTime(acc) ==
    CHOOSE m \in {a.t : a \in acc} : \A a \in acc : m <= a.t

HeadMaxTime(acc) ==
    CHOOSE m \in {a.t : a \in acc} : \A a \in acc : a.t <= m

Elems(q) == {q[k] : k \in 1..Len(q)}

NoCall == [fn |-> "none"]

InitHead ==
    /\ \E ss \in FixtureLists :
          hd = [pc |-> "NewHead", series |-> ss, i |-> 0, ref |-> 0,
                it |-> IdleIt, t |-> 0, v |-> 0, err |-> "nil",
                accepted |-> <<>>, lastCall |-> NoCall, prevCall |-> NoCall,
                lastAdd |-> NoCall,
                commits |-> 0, closes |-> 0, writes |-> 0,
                fastOks |-> 0, fastFails |-> 0, appendCalls |-> 0,
                appendsAtCommit |-> 0,
                minTime |-> 0, maxTime |-> 0, mint |-> 0, maxt |-> 0]
    /\ it = IdleIt
    /\ trace = <<>>
    /\ gen = IdleGen
    /\ db = IdleDB

\* Lines 49-53: NewHead, Ok, defer head.Close(), head.Appender().
NewHead ==
    /\ hd.pc = "NewHead"
    /\ \E e \in Errs :
          hd' = [hd EXCEPT !.pc = Ok(e, "Range"),
                           !.err = IF e = "nil" THEN "nil" ELSE "NewHead"]
    /\ UNCHANGED <<it, trace, gen, db>>

\* Mutant of SeriesRef: the reference of the series before is kept.
SeriesRefKept(ref) == ref

\* Line 55: ref := uint64(0) at the start of every series.
SeriesRef(ref) == 0

\* Lines 54-56: the next series of the range loop, or the end of the loop.
RangeSeries ==
    /\ hd.pc = "Range"
    /\ \/ /\ hd.i < Len(hd.series)
          /\ hd' = [hd EXCEPT
                      !.pc = "ItNext",
                      !.i = hd.i + 1,
                      !.ref = SeriesRef(hd.ref),
                      !.it = newListSeriesIterator(hd.series[hd.i + 1].samples)]
       \/ /\ hd.i >= Len(hd.series)
          /\ hd' = [hd EXCEPT !.pc = "Commit"]
    /\ UNCHANGED <<it, trace, gen, db>>

\* Line 59: with a reference in hand AddFast is tried first.
AfterNext(ref) == IF ref # 0 THEN "AddFast" ELSE "Add"

\* Lines 57-59 and 68: it.Next(); inside the loop t, v := it.At().
ItNext ==
    /\ hd.pc = "ItNext"
    /\ LET r == Next(hd.it)
       IN  \/ /\ r.ok
              /\ hd' = [hd EXCEPT !.it = r.it,
                                  !.t = At(r.it).t,
                                  !.v = At(r.it).v,
                                  !.pc = AfterNext(hd.ref)]
           \/ /\ ~r.ok
              /\ hd' = [hd EXCEPT !.it = r.it,
                                  !.pc = Ok(Err(r.it), "Range")]
    /\ UNCHANGED <<it, trace, gen, db>>

Accept(h) == Append(h.accepted, [s |-> h.i, t |-> h.t, v |-> h.v])

\* Mutant of AfterAddFast: a sample AddFast took is handed to Add as well.
AfterAddFastAlwaysAdd(e) == "Add"

\* Mutant of AfterAddFast: only a reference that was not found falls back
\* to Add, any other error fails the run.
AfterAddFastNotFoundOnly(e) ==
    IF e = "nil" THEN "ItNext"
    ELSE IF e = "ErrNotFound" THEN "Add" ELSE "failed"

\* Lines 61-64: continue when AddFast succeeded, else fall through to Add.
AfterAddFast(e) == IF e = "nil" THEN "ItNext" ELSE "Add"

\* Lines 60-64: app.AddFast(ref, t, v).
AddFast ==
    /\ hd.pc = "AddFast"
    /\ \E e \in FastErrs :
          hd' = [hd EXCEPT
                   !.lastCall = [fn |-> "AddFast", s |-> hd.i, ref |-> hd.ref,
                                 t |-> hd.t, v |-> hd.v, err |-> e],
                   !.prevCall = hd.lastCall,
                   !.accepted = IF e = "nil" THEN Accept(hd) ELSE @,
                   !.fastOks = IF e = "nil" THEN @ + 1 ELSE @,
                   !.fastFails = IF e = "nil" THEN @ ELSE @ + 1,
                   !.appendCalls = @ + 1,
                   !.pc = AfterAddFast(e)]
    /\ UNCHANGED <<it, trace, gen, db>>

\* Mutant of AfterAdd: the error of Add is dropped.
AfterAddIgnoreErr(e) == "ItNext"

\* Line 66: Ok(tb, err) after Add.
AfterAdd(e) == Ok(e, "ItNext")

\* Mutant of Closes: head.Close() is not deferred and is skipped when the
\* run fails.
ClosesOnReturnOnly(h, pc) == h.closes

\* Deferred head.Close() (line 51) runs when createHead is left.
Closes(h, pc) == IF pc = "failed" THEN h.closes + 1 ELSE h.closes

\* Lines 65-66: ref, err = app.Add(s.Labels(), t, v); Ok(tb, err).
Add ==
    /\ hd.pc = "Add"
    /\ \E r \in Refs, e \in Errs :
          LET call == [fn |-> "Add", s |-> hd.i,
                       labels |-> hd.series[hd.i].labels, ref |-> r,
                       t |-> hd.t, v |-> hd.v, err |-> e]
          IN  hd' = [hd EXCEPT
                       !.ref = r,
                       !.lastCall = call,
                       !.prevCall = hd.lastCall,
                       !.lastAdd = IF e = "nil" THEN call ELSE @,
                       !.accepted = IF e = "nil" THEN Accept(hd) ELSE @,
                       !.appendCalls = @ + 1,
                       !.err = IF e = "nil" THEN "nil" ELSE "Add",
                       !.closes = Closes(hd, AfterAdd(e)),
                       !.pc = AfterAdd(e)]
    /\ UNCHANGED <<it, trace, gen, db>>

\* Mutant of AfterCommit: the error of Commit is dropped.
AfterCommitIgnoreErr(e) == "Return"

\* Line 71: Ok(tb, err) after Commit.
AfterCommit(e) == Ok(e, "Return")

\* Lines 70-71: err = app.Commit(); Ok(tb, err).  A committed head reports
\* the least and the greatest timestamp it holds; what an empty head
\* reports is left open.
Commit ==
    /\ hd.pc = "Commit"
    /\ \E e \in Errs, lo \in HeadTimestamps, hi \in HeadTimestamps :
          /\ hd.accepted # <<>> =>
                /\ lo = HeadMinTime(Elems(hd.accepted))
                /\ hi = HeadMaxTime(Elems(hd.accepted))
          /\ hd' = [hd EXCEPT
                      !.lastCall = [fn |-> "Commit", err |-> e],
                      !.prevCall = hd.lastCall,
                      !.commits = @ + 1,
                      !.appendsAtCommit = hd.appendCalls,
                      !.minTime = IF e = "nil" THEN lo ELSE @,
                      !.maxTime = IF e = "nil" THEN hi ELSE @,
                      !.err = IF e = "nil" THEN "nil" ELSE "Commit",
                      !.closes = Closes(hd, AfterCommit(e)),
                      !.pc = AfterCommit(e)]
    /\ UNCHANGED <<it, trace, gen, db>>

\* Line 72 with the deferred head.Close() of line 51; back in CreateBlock.
Return ==
    /\ hd.pc = "Return"
    /\ hd' = [hd EXCEPT !.closes = @ + 1,
                        !.lastCall = [fn |-> "Close"],
                        !.prevCall = hd.lastCall,
                        !.pc = "NewLeveledCompactor"]
    /\ UNCHANGED <<it, trace, gen, db>>

\* Lines 36-37.
NewLeveledCompactor ==
    /\ hd.pc = "NewLeveledCompactor"
    /\ \E e \in Errs :
          hd' = [hd EXCEPT !.pc = Ok(e, "MkdirAll"),
                           !.err = IF e = "nil" THEN "nil"
                                   ELSE "NewLeveledCompactor"]
    /\ UNCHANGED <<it, trace, gen, db>>

\* Line 39.
MkdirAll ==
    /\ hd.pc = "MkdirAll"
    /\ \E e \in Errs :
          hd' = [hd EXCEPT !.pc = Ok(e, "Write"),
                           !.err = IF e = "nil" THEN "nil" ELSE "MkdirAll"]
    /\ UNCHANGED <<it, trace, gen, db>>

\* Mutant of BlockMaxt: the head's MaxTime is passed on as it is.
BlockMaxtClosed(maxTime) == maxTime

\* Line 43: block intervals are half-open, so maxt is head.MaxTime()+1.
BlockMaxt(maxTime) == maxTime + 1

\* Lines 43-45: compactor.Write(dir, head, mint, maxt, nil); Ok(tb, err).
Write ==
    /\ hd.pc = "Write"
    /\ \E e \in Errs :
          hd' = [hd EXCEPT
                   !.lastCall = [fn |-> "Write", err |-> e],
                   !.prevCall = hd.lastCall,
                   !.writes = @ + 1,
                   !.mint = hd.minTime,
                   !.maxt = BlockMaxt(hd.maxTime),
                   !.err = IF e = "nil" THEN "nil" ELSE "Write",
                   !.pc = Ok(e, "done")]
    /\ UNCHANGED <<it, trace, gen, db>>

NextHead ==
    \/ NewHead \/ RangeSeries \/ ItNext \/ AddFast \/ Add \/ Commit
    \/ Return \/ NewLeveledCompactor \/ MkdirAll \/ Write

SpecHead == InitHead /\ [][NextHead]_vars

(***************************************************************************)
(* SpecGen: GenSeries(totalSeries, labelCount, mint, maxt), applied to     *)
(* arguments with totalSeries >= 0 and labelCount >= 0.                    *)
(***************************************************************************)
MaxTotalSeries == 2    \* totalSeries is drawn from 0..MaxTotalSeries
MaxLabelCount == 3     \* labelCount is drawn from 0..MaxLabelCount
MaxSeed == 1           \* states of the random source, 0..MaxSeed

GenTimes == 0..MaxT

defaultLabelName == "labelName"
defaultLabelValue == "labelValue"

\* strconv.Itoa: the decimal digits of i, with a sign when i is negative.
Digit(d) == <<"0", "1", "2", "3", "4", "5", "6", "7", "8", "9">>[d + 1]

RECURSIVE Itoa(_)
Itoa(i) ==
    IF i < 0 THEN "-" \o Itoa(0 - i)
    ELSE IF i < 10 THEN Digit(i)
    ELSE Itoa(i \div 10) \o Digit(i % 10)

\* lbls[key] = value on a Go map.
MapPut(m, key, value) ==
    [x \in (DOMAIN m) \cup {key} |-> IF x = key THEN value ELSE m[x]]

\* Lines 104-106: for j := 1; len(lbls) < labelCount; j++ { ... }
RECURSIVE LabelLoop(_, _, _)
LabelLoop(lbls, j, labelCount) ==
    IF Cardinality(DOMAIN lbls) < labelCount
    THEN LabelLoop(MapPut(lbls, defaultLabelName \o Itoa(j),
                          defaultLabelValue \o Itoa(j)),
                   j + 1, labelCount)
    ELSE lbls

\* Mutant of GenLabels: every added label carries defaultLabelValue as it
\* is.
RECURSIVE LabelLoopFixedValue(_, _, _)
LabelLoopFixedValue(lbls, j, labelCount) ==
    IF Cardinality(DOMAIN lbls) < labelCount
    THEN LabelLoopFixedValue(MapPut(lbls, defaultLabelName \o Itoa(j),
                                    defaultLabelValue),
                             j + 1, labelCount)
    ELSE lbls

GenLabelsFixedValue(i, labelCount) ==
    LabelLoopFixedValue(MapPut(<<>>, defaultLabelName, Itoa(i)), 1,
                        labelCount)

\* Lines 102-106: the label map of series i.
GenLabels(i, labelCount) ==
    LabelLoop(MapPut(<<>>, defaultLabelName, Itoa(i)), 1, labelCount)

\* rand.Float64() of the shared source: its d-th draw when the source
\* started in state seed.
RandFloat64(seed, d) == (seed + d) % (MaxSeed + 1)

\* Mutant of SamplesCap: the capacity is never negative.
SamplesCapClamped(mint, maxt) == Max(0, maxt - mint + 1)

\* Line 107: the capacity handed to make([]tsdbutil.Sample, 0, cap).
SamplesCap(mint, maxt) == maxt - mint + 1

\* Lines 108-110: one sample for each t with mint <= t < maxt; drawn is the
\* number of values drawn before.
GenSamples(mint, maxt, seed, drawn) ==
    [k \in 1..Max(0, maxt - mint) |->
        sample(mint + k - 1, RandFloat64(seed, drawn + k - 1))]

\* Lines 102-111: one turn of the loop.  make panics (makeslice: cap out of
\* range) when the capacity is negative.
GenOne(i, labelCount, mint, maxt, seed) ==
    IF SamplesCap(mint, maxt) < 0
    THEN [panic |-> TRUE, s |-> newSeries(<<>>, <<>>)]
    ELSE [panic |-> FALSE,
          s |-> newSeries(GenLabels(i, labelCount),
                          GenSamples(mint, maxt, seed,
                                     i * Max(0, maxt - mint)))]

GenSeries(totalSeries, labelCount, mint, maxt, seed) ==
    IF totalSeries = 0 \/ labelCount = 0
    THEN [panic |-> FALSE, series |-> <<>>]
    ELSE LET one == [k \in 1..totalSeries |->
                        GenOne(k - 1, labelCount, mint, maxt, seed)]
         IN  IF \E k \in 1..totalSeries : one[k].panic
             THEN [panic |-> TRUE, series |-> <<>>]
             ELSE [panic |-> FALSE,
                   series |-> [k \in 1..totalSeries |-> one[k].s]]

InitGen ==
    /\ \E n \in 0..MaxTotalSeries, k \in 0..MaxLabelCount,
          a \in GenTimes, b \in GenTimes :
          gen = [pc |-> "call", totalSeries |-> n, labelCount |-> k,
                 mint |-> a, maxt |-> b,
                 result |-> [panic |-> FALSE, series |-> <<>>]]
    /\ it = IdleIt
    /\ trace = <<>>
    /\ hd = IdleHd
    /\ db = IdleDB

CallGenSeries ==
    /\ gen.pc = "call"
    /\ \E seed \in 0..MaxSeed :
          gen' = [gen EXCEPT
                    !.pc = "done",
                    !.result = GenSeries(gen.totalSeries, gen.labelCount,
                                         gen.mint, gen.maxt, seed)]
    /\ UNCHANGED <<it, trace, hd, db>>

NextGen == CallGenSeries

SpecGen == InitGen /\ [][NextGen]_vars

(***************************************************************************)
(* SpecDB: a test that opens databases with OpenTestDB, calls the release  *)
(* functions it was given, any number of times, and closes databases       *)
(* itself.  ioutil.TempDir picks a directory name that does not exist yet. *)
(***************************************************************************)
MaxDBs == 3        \* calls of OpenTestDB in one test
MaxTmpNames == 3   \* directory names ioutil.TempDir chooses from

TmpNames == 1..MaxTmpNames

InitDB ==
    /\ db = [pc |-> "test", dirs |-> {}, inst |-> <<>>, failed |-> FALSE,
             opens |-> 0, last |-> [op |-> "none"]]
    /\ it = IdleIt
    /\ trace = <<>>
    /\ hd = IdleHd
    /\ gen = IdleGen

OpenStates(d) == [j \in 1..Len(d.inst) |-> d.inst[j].open]

\* Lines 21-31: TempDir, Ok, tsdb.Open, Ok, return db and the closure.
OpenTestDB ==
    /\ db.pc = "test"
    /\ ~db.failed
    /\ db.opens < MaxDBs
    /\ \/ \* ioutil.TempDir fails
          db' = [db EXCEPT !.failed = TRUE, !.opens = @ + 1,
                           !.last = [op |-> "TempDir", err |-> "err"]]
       \/ \E tmpdir \in TmpNames \ db.dirs, e \in Errs :
             db' = [db EXCEPT
                      !.dirs = @ \cup {tmpdir},
                      !.opens = @ + 1,
                      !.inst = IF e = "nil"
                               THEN Append(@, [tmpdir |-> tmpdir,
                                               open |-> TRUE])
                               ELSE @,
                      !.failed = (Ok(e, "test") = "failed"),
                      !.last = [op |-> "Open", err |-> e]]
    /\ UNCHANGED <<it, trace, hd, gen>>

\* Mutant of Release: the release function closes the database as well.
ReleaseAndClose(d, i, e) ==
    [d EXCEPT !.dirs = IF e = "nil" THEN @ \ {d.inst[i].tmpdir} ELSE @,
              !.inst[i].open = FALSE,
              !.failed = @ \/ Ok(e, "test") = "failed"]

\* Lines 28-30: func() { Ok(t, os.RemoveAll(tmpdir)) }, the release
\* function of the i-th database, with e what os.RemoveAll returns.
Release(d, i, e) ==
    [d EXCEPT !.dirs = IF e = "nil" THEN @ \ {d.inst[i].tmpdir} ELSE @,
              !.failed = @ \/ Ok(e, "test") = "failed"]

CallRelease ==
    /\ db.pc = "test"
    /\ \E i \in 1..Len(db.inst), e \in Errs :
          db' = [Release(db, i, e) EXCEPT
                   !.last = [op |-> "Release", i |-> i, err |-> e,
                             open |-> OpenStates(db)]]
    /\ UNCHANGED <<it, trace, hd, gen>>

\* The test closes a database it opened: db.Close().
CloseDB ==
    /\ db.pc = "test"
    /\ \E i \in 1..Len(db.inst) :
          /\ db.inst[i].open
          /\ db' = [db EXCEPT !.inst[i].open = FALSE,
                              !.last = [op |-> "Close", i |-> i]]
    /\ UNCHANGED <<it, trace, hd, gen>>

NextDB == OpenTestDB \/ CallRelease \/ CloseDB

SpecDB == InitDB /\ [][NextDB]_vars

(***************************************************************************)
(* What the claims about the iterator speak of.                            *)
(***************************************************************************)
Last(s) == s[Len(s)]

OnlyOp(op) == \A k \in 1..Len(trace) : trace[k].op = op

\* Some element at a 0-based index >= from has a timestamp >= t.
HasGE(l, from, t) == \E i \in from..(Len(l) - 1) : l[i + 1].t >= t

\* The smallest such index.
FirstGE(l, from, t) ==
    CHOOSE i \in from..(Len(l) - 1) :
        /\ l[i + 1].t >= t
        /\ \A j \in from..(i - 1) : l[j + 1].t < t

\* C1: on a list with non-decreasing timestamps, seek(target) called at any
\* position p leaves the position at the smallest index i >= max(p, 0) with
\* S[i].timestamp >= target, whenever such an index exists.
C1_SeekLandsOnFirstGEFromPosition ==
    \A k \in 1..Len(trace) :
        LET e == trace[k]
            from == Max(e.pre, 0)
        IN  (e.op = "Seek" /\ IsSorted(it.list) /\ HasGE(it.list, from, e.t))
                => e.post = FirstGE(it.list, from, e.t)

\* C2: seek(t) called at a valid position p with t below the timestamp of
\* S[p] leaves the position at p.
C2_SeekBelowCurrentKeepsPosition ==
    \A k \in 1..Len(trace) :
        LET e == trace[k]
        IN  (/\ e.op = "Seek"
             /\ IsSorted(it.list)
             /\ 0 <= e.pre /\ e.pre < Len(it.list)
             /\ e.t < it.list[e.pre + 1].t)
                => e.post = e.pre

\* C3: when every call made on a fresh iterator is a seek and the targets
\* are non-decreasing, each seek lands on the first element of the whole
\* list with timestamp >= its target, and no seek ends below the position
\* an earlier seek reached.
NonDecreasingSeeks ==
    /\ OnlyOp("Seek")
    /\ \A k \in 1..(Len(trace) - 1) : trace[k].t <= trace[k + 1].t

C3_SeekMonotonicity ==
    (IsSorted(it.list) /\ NonDecreasingSeeks) =>
        \A k \in 1..Len(trace) :
            /\ HasGE(it.list, 0, trace[k].t)
                  => trace[k].post = FirstGE(it.list, 0, trace[k].t)
            /\ \A j \in 1..(k - 1) : trace[j].post <= trace[k].post

\* C5: on a fresh iterator over a list of length n the k-th advance, for
\* k <= n, returns true and leaves current() equal to the k-th element of
\* the list; the (n+1)-th advance returns false.
C5_IteratorCorrectness ==
    OnlyOp("Next") =>
        LET k == Len(trace)
            n == Len(it.list)
        IN  /\ (1 <= k /\ k <= n) =>
                  /\ Last(trace).ok
                  /\ ~AtPanics(it)
                  /\ At(it) = it.list[k]
            /\ k = n + 1 => ~Last(trace).ok

C5_Witness ==
    /\ OnlyOp("Next")
    /\ Len(it.list) >= 2
    /\ Len(trace) = Len(it.list) + 1
    /\ \A k \in 1..Len(it.list) : trace[k].ok /\ trace[k].post = k - 1
    /\ ~Last(trace).ok

(***************************************************************************)
(* What the claims about createHead and CreateBlock speak of.              *)
(***************************************************************************)
\* Every sample of every fixture, in the order of the fixtures and, within
\* a fixture, in the order of its list.
RECURSIVE SamplesUpTo(_, _)
SamplesUpTo(ss, n) ==
    IF n = 0 THEN <<>>
    ELSE SamplesUpTo(ss, n - 1) \o
         [k \in 1..Len(ss[n].samples) |->
             [s |-> n, t |-> ss[n].samples[k].t, v |-> ss[n].samples[k].v]]

AllSamples == SamplesUpTo(hd.series, Len(hd.series))

IsPrefix(p, q) == Len(p) <= Len(q) /\ SubSeq(q, 1, Len(p)) = p

\* The loop over the fixtures has run to its end.
LoopDone ==
    \/ hd.pc \in {"Commit", "Return", "NewLeveledCompactor", "MkdirAll",
                  "Write", "done"}
    \/ hd.pc = "failed" /\ hd.err \notin {"NewHead", "Add"}

\* C4: whatever AddFast answers, as long as Add succeeds the successful
\* append calls take the samples one by one in iterator order, each once:
\* what has been accepted is always a prefix of the samples of the fixtures,
\* and all of them once the loop has ended.
C4_EachSampleAcceptedOnce ==
    /\ IsPrefix(hd.accepted, AllSamples)
    /\ LoopDone => hd.accepted = AllSamples

\* Every AddFast call failed, there were at least two, and yet all the
\* samples were accepted.
C4_Witness ==
    /\ hd.pc = "Commit"
    /\ hd.fastFails >= 2 /\ hd.fastOks = 0
    /\ Len(hd.accepted) >= 4
    /\ hd.accepted = AllSamples

\* C6: Commit is called at most once, and once when the loop has ended; it
\* is called only when every sample of every fixture has been appended; no
\* append call follows it; a failed Commit fails the run with that error.
C6_CommitOnceAfterAllAppends ==
    /\ hd.commits <= 1
    /\ (LoopDone /\ hd.pc # "Commit") => hd.commits = 1
    /\ hd.commits = 1 =>
          /\ hd.accepted = AllSamples
          /\ hd.appendCalls = hd.appendsAtCommit
    /\ (hd.lastCall.fn = "Commit" /\ hd.lastCall.err # "nil") =>
          /\ hd.pc = "failed"
          /\ hd.err = "Commit"
          /\ hd.writes = 0

C6_Witness ==
    /\ hd.commits = 1
    /\ hd.lastCall.fn = "Commit" /\ hd.lastCall.err # "nil"
    /\ hd.pc = "failed"
    /\ Len(hd.accepted) >= 3
    /\ hd.fastOks >= 1

\* The samples that precede the one the iterator stands on.
Before(h) ==
    SubSeq(SamplesUpTo(h.series, h.i), 1,
           Len(SamplesUpTo(h.series, h.i - 1)) + h.it.idx)

\* C7: when Add fails the run has failed with that error and has stopped:
\* no further call is made (no retry, no later sample, no Commit), and the
\* samples accepted before the failure, and only those, are still accepted.
C7_AddFailureStopsIngestion ==
    (hd.lastCall.fn = "Add" /\ hd.lastCall.err # "nil") =>
        /\ hd.pc = "failed"
        /\ hd.err = "Add"
        /\ hd.commits = 0
        /\ hd.writes = 0
        /\ hd.accepted = Before(hd)
        /\ ~ENABLED NextHead

\* Add fails on the second sample of the first of two fixtures.
C7_Witness ==
    /\ hd.lastCall.fn = "Add" /\ hd.lastCall.err # "nil"
    /\ hd.pc = "failed"
    /\ Len(hd.accepted) >= 1
    /\ Len(AllSamples) >= Len(hd.accepted) + 2
    /\ hd.i < Len(hd.series)

\* C8: the compactor is asked for the range from the head's MinTime to its
\* MaxTime plus one, so every committed sample, the one at MaxTime
\* included, lies in the half-open range [mint, maxt).
C8_HalfOpenBlockBoundary ==
    hd.writes >= 1 =>
        /\ hd.mint = hd.minTime
        /\ hd.maxt = hd.maxTime + 1
        /\ \A k \in 1..Len(hd.accepted) :
              hd.mint <= hd.accepted[k].t /\ hd.accepted[k].t < hd.maxt
        /\ hd.accepted # <<>> =>
              \E k \in 1..Len(hd.accepted) : hd.accepted[k].t = hd.maxTime

C8_Witness ==
    /\ hd.pc = "done"
    /\ hd.writes = 1
    /\ Len(hd.accepted) >= 3
    /\ hd.minTime < hd.maxTime
    /\ hd.maxt = hd.maxTime + 1

(***************************************************************************)
(* What the claims about GenSeries speak of.                               *)
(***************************************************************************)
Timestamps_(l) == [k \in 1..Len(l) |-> l[k].t]

\* The timestamps a, a+1, ..., b-1.
FromTo(a, b) == [k \in 1..Max(0, b - a) |-> a + k - 1]

\* C9: generate(n, k, a, b) returns n fixtures when n > 0 and k > 0 and
\* none when n = 0 or k = 0; every fixture has k distinct label keys and
\* max(0, b-a) samples, with the timestamps a, a+1, ..., b-1 in that order.
C9_Cardinality ==
    gen.pc = "done" =>
        LET r == gen.result
        IN  /\ ~r.panic
            /\ Len(r.series) =
                  (IF gen.totalSeries = 0 \/ gen.labelCount = 0
                   THEN 0 ELSE gen.totalSeries)
            /\ \A i \in 1..Len(r.series) :
                  /\ Cardinality(DOMAIN r.series[i].labels) = gen.labelCount
                  /\ Len(r.series[i].samples) = Max(0, gen.maxt - gen.mint)
                  /\ Timestamps_(r.series[i].samples)
                        = FromTo(gen.mint, gen.maxt)

\* C10: for maxTime < minTime, n > 0 and k > 0, generate returns, without
\* a crash, fixtures whose sample sequences are all empty.
C10_MalformedRangeYieldsEmpty ==
    (/\ gen.pc = "done"
     /\ gen.maxt < gen.mint
     /\ gen.totalSeries > 0 /\ gen.labelCount > 0) =>
        LET r == gen.result
        IN  /\ ~r.panic
            /\ Len(r.series) = gen.totalSeries
            /\ \A i \in 1..Len(r.series) : r.series[i].samples = <<>>

(***************************************************************************)
(* What the claim about OpenTestDB speaks of.                              *)
(***************************************************************************)
\* C11: the release function OpenTestDB returned removes the temporary
\* directory of its database and closes nothing: after it has run, every
\* database is as open or closed as before, and when os.RemoveAll
\* succeeded the directory does not exist.
C11_ReleaseRemovesDirOnly ==
    db.last.op = "Release" =>
        /\ OpenStates(db) = db.last.open
        /\ db.last.err = "nil" => db.inst[db.last.i].tmpdir \notin db.dirs

\* Of two open databases the first was released: its directory is gone,
\* it is still open, and the directory of the second is still there.
C11_Witness ==
    /\ db.last.op = "Release" /\ db.last.err = "nil" /\ db.last.i = 1
    /\ Len(db.inst) = 2
    /\ db.inst[1].open /\ db.inst[2].open
    /\ db.inst[1].tmpdir \notin db.dirs
    /\ db.inst[2].tmpdir \in db.dirs

(***************************************************************************)
(* What the claims about the references and the fallback speak of.         *)
(***************************************************************************)
\* C12: AddFast is only ever called with a reference that is not 0 and
\* that the most recent successful Add returned, for the series being
\* ingested; the first sample of every series finds the reference at 0
\* and goes to Add.
C12_FastAppendUsesOwnSeriesRef ==
    /\ hd.pc \in {"AddFast", "Add"} /\ hd.it.idx = 0 =>
          hd.pc = "Add" /\ hd.ref = 0
    /\ hd.pc = "AddFast" =>
          /\ hd.ref # 0
          /\ hd.lastAdd.fn = "Add"
          /\ hd.lastAdd.s = hd.i
          /\ hd.lastAdd.ref = hd.ref
    /\ hd.lastCall.fn = "AddFast" =>
          /\ hd.lastCall.ref # 0
          /\ hd.lastAdd.fn = "Add"
          /\ hd.lastAdd.s = hd.lastCall.s
          /\ hd.lastAdd.ref = hd.lastCall.ref

\* AddFast was called for the second series after it had been called for
\* the first.
C12_Witness ==
    /\ hd.lastCall.fn = "AddFast"
    /\ hd.lastCall.s = 2
    /\ hd.lastAdd.s = 2
    /\ hd.appendCalls >= 4
    /\ hd.accepted[2].s = 1 /\ hd.accepted[2].v = 2

\* C13: when AddFast fails, with whatever error, no failure is reported
\* and the next call is Add, with the labels of the same series and the
\* same timestamp and value; when that Add succeeds the reference it
\* returned is the one held from then on.
C13_FastAppendFailureFallsBack ==
    /\ (hd.lastCall.fn = "AddFast" /\ hd.lastCall.err # "nil") =>
          /\ hd.pc = "Add"
          /\ hd.err = "nil"
          /\ hd.i = hd.lastCall.s
          /\ hd.t = hd.lastCall.t /\ hd.v = hd.lastCall.v
    /\ (/\ hd.lastCall.fn = "Add"
        /\ hd.prevCall.fn = "AddFast" /\ hd.prevCall.err # "nil") =>
          /\ hd.lastCall.s = hd.prevCall.s
          /\ hd.lastCall.labels = hd.series[hd.prevCall.s].labels
          /\ hd.lastCall.t = hd.prevCall.t /\ hd.lastCall.v = hd.prevCall.v
          /\ hd.lastCall.err = "nil" =>
                /\ hd.err = "nil" /\ hd.pc # "failed"
                /\ hd.i = hd.lastCall.s => hd.ref = hd.lastCall.ref

\* AddFast failed with an error other than a missing reference, Add took
\* the sample and returned another reference, which is now held.
C13_Witness ==
    /\ hd.lastCall.fn = "Add" /\ hd.lastCall.err = "nil"
    /\ hd.prevCall.fn = "AddFast" /\ hd.prevCall.err = "ErrOutOfBounds"
    /\ hd.lastCall.ref # hd.prevCall.ref
    /\ hd.ref = hd.lastCall.ref
    /\ hd.pc = "ItNext"

(***************************************************************************)
(* More about the iterator: what Seek returns, exhaustion, bounds.         *)
(***************************************************************************)
\* C14: on a list with non-decreasing timestamps seek(target) returns true
\* exactly when some sample at an index in [max(p, 0), length), p the
\* position before the call, has a timestamp >= target; and when it
\* returns true the sample at the new position has a timestamp >= target.
C14_SeekResult ==
    \A k \in 1..Len(trace) :
        LET e == trace[k]
        IN  (e.op = "Seek" /\ IsSorted(it.list)) =>
                /\ e.ok <=> HasGE(it.list, Max(e.pre, 0), e.t)
                /\ e.ok => it.list[e.post + 1].t >= e.t

\* C15: when the first call on a fresh iterator over a list with
\* non-decreasing timestamps is seek(target), it lands on the first
\* element of the list with timestamp >= target and returns true, or
\* returns false when the list has no such element.
C15_SeekOnFreshIterator ==
    (Len(trace) >= 1 /\ trace[1].op = "Seek" /\ IsSorted(it.list)) =>
        LET e == trace[1]
        IN  /\ e.pre = -1
            /\ IF HasGE(it.list, 0, e.t)
               THEN e.ok /\ e.post = FirstGE(it.list, 0, e.t)
               ELSE ~e.ok

\* The seek skipped two elements and landed on the third.
C15_Witness ==
    /\ Len(trace) = 1 /\ trace[1].op = "Seek" /\ IsSorted(it.list)
    /\ trace[1].ok
    /\ trace[1].post = 2
    /\ it.idx = 2
    /\ it.list[2].t < trace[1].t

\* C17: once advance() or seek() has returned false, every later advance()
\* and seek() on the iterator returns false.
C17_ExhaustionIsPermanent ==
    \A j \in 1..Len(trace) : \A k \in j..Len(trace) :
        ~trace[j].ok => ~trace[k].ok

\* C18: the position is never below -1, and when the most recent advance()
\* or seek() returned true it is an index of the list, so that current()
\* reads an element.
C18_PositionInBounds ==
    /\ it.idx >= -1
    /\ (trace # <<>> /\ Last(trace).ok) =>
          /\ 0 <= it.idx /\ it.idx < Len(it.list)
          /\ ~AtPanics(it)
          /\ At(it) = it.list[Last(trace).post + 1]

\* A seek that returned true after advances, one of which returned false.
C18_Witness ==
    /\ Len(trace) >= 3
    /\ Last(trace).op = "Seek" /\ Last(trace).ok
    /\ \E k \in 1..Len(trace) : trace[k].op = "Next" /\ ~trace[k].ok
    /\ \E k \in 1..Len(trace) : trace[k].op = "Next" /\ trace[k].ok
    /\ ~AtPanics(it)

(***************************************************************************)
(* What the claim about the generated labels speaks of.                    *)
(***************************************************************************)
\* The keys of a fixture generated with labelCount k >= 2: the base name
\* and the base name followed by j, for j = 1..k-1.
AddedKey(j) == defaultLabelName \o Itoa(j)

ExpectedKeys(k) == {defaultLabelName} \cup {AddedKey(j) : j \in 1..(k - 1)}

\* The fixtures of a call with labelCount >= 2 that returned.
LabelledFixtures ==
    IF gen.pc = "done" /\ ~gen.result.panic /\ gen.labelCount >= 2
    THEN 1..Len(gen.result.series)
    ELSE {}

\* C16 as stated: the added labels are keyed baseName+j for j = 1..k-1 and
\* all carry one and the same value, whatever j; the label under the base
\* name carries the decimal string of the series index.
C16_AddedLabelsShareOneValue ==
    \A i \in LabelledFixtures :
        LET lbls == gen.result.series[i].labels
        IN  /\ DOMAIN lbls = ExpectedKeys(gen.labelCount)
            /\ lbls[defaultLabelName] = Itoa(i - 1)
            /\ \A j \in 1..(gen.labelCount - 1) :
                  lbls[AddedKey(j)] = lbls[AddedKey(1)]

\* C16 as amended: the added label keyed baseName+j carries the value
\* defaultLabelValue followed by the decimal string of j, so the values
\* differ from one added label to the next; keys and the label under the
\* base name are as stated.
C16_AddedLabelsCarryTheirPosition ==
    \A i \in LabelledFixtures :
        LET lbls == gen.result.series[i].labels
        IN  /\ DOMAIN lbls = ExpectedKeys(gen.labelCount)
            /\ lbls[defaultLabelName] = Itoa(i - 1)
            /\ \A j \in 1..(gen.labelCount - 1) :
                  lbls[AddedKey(j)] = defaultLabelValue \o Itoa(j)
            /\ \A j1, j2 \in 1..(gen.labelCount - 1) :
                  j1 # j2 => lbls[AddedKey(j1)] # lbls[AddedKey(j2)]

\* Two fixtures with three labels each; the second has index 1.
C16_Witness ==
    /\ gen.pc = "done" /\ ~gen.result.panic
    /\ gen.labelCount = 3
    /\ Len(gen.result.series) = 2
    /\ gen.result.series[2].labels["labelName"] = "1"
    /\ gen.result.series[2].labels["labelName1"] = "labelValue1"
    /\ gen.result.series[2].labels["labelName2"] = "labelValue2"

(***************************************************************************)
(* What the claim about the order of the calls speaks of.                  *)
(***************************************************************************)
InCreateHead ==
    hd.pc \in {"Range", "ItNext", "AddFast", "Add", "Commit", "Return"}

\* createHead has been left after NewHead had made a head.
LeftCreateHead ==
    \/ hd.pc \in {"NewLeveledCompactor", "MkdirAll", "Write", "done"}
    \/ hd.pc = "failed" /\ hd.err # "NewHead"

\* C19: the calls come in the order appends, Commit, Close, Write.  Write
\* is called only after a Commit that succeeded and after the head was
\* closed; the head is closed exactly once on every way out of createHead,
\* a failed Add or Commit included, and not before.
C19_CallOrder ==
    /\ hd.closes <= 1 /\ hd.writes <= 1 /\ hd.commits <= 1
    /\ InCreateHead => hd.closes = 0 /\ hd.writes = 0
    /\ LeftCreateHead => hd.closes = 1
    /\ hd.commits = 1 => hd.appendCalls = hd.appendsAtCommit
    /\ hd.lastCall.fn = "Commit" =>
          hd.prevCall.fn \in {"none", "AddFast", "Add"}
    /\ hd.lastCall.fn = "Close" =>
          hd.prevCall.fn = "Commit" /\ hd.prevCall.err = "nil"
    /\ hd.lastCall.fn = "Write" => hd.prevCall.fn = "Close"
    /\ hd.writes = 1 =>
          /\ hd.commits = 1
          /\ hd.closes = 1
          /\ hd.err \in {"nil", "Write"}
          /\ hd.accepted = AllSamples

\* A run that went through to the end, with appends of both kinds.
C19_Witness ==
    /\ hd.pc = "done"
    /\ hd.lastCall.fn = "Write" /\ hd.prevCall.fn = "Close"
    /\ hd.commits = 1 /\ hd.closes = 1 /\ hd.writes = 1
    /\ hd.fastOks >= 1 /\ hd.fastFails >= 1
    /\ Len(hd.accepted) >= 3

=============================================================================
